---------------------------- MODULE Spec2Model ----------------------------
(***************************************************************************)
(* Model of src/dictation_app.py: the DictationApp window (UI thread), the *)
(* pynput hotkey listener (its own thread), and the RecordingThread        *)
(* workers with their audio callback, temp file, model call and transcript *)
(* file.                                                                   *)
(***************************************************************************)
EXTENDS Integers, Sequences, FiniteSets

\* ------------------------------------------------------------------ bounds
\* Blocks the audio callback delivers to one worker's stream.
MaxChunks == 1
\* Seconds the wall clock advances (datetime.now() at second resolution).
MaxTime == 1

\* The RecordingThread objects start_recording constructs.
Workers == {1, 2}
Times == 0..MaxTime
\* Input devices of the combo box (device ids of sd.query_devices()).
Devices == {1, 2}
\* The two threads that call toggle_recording.
Threads == {"ui", "hk"}

\* self.recording_thread: attribute not yet assigned / None / a worker id.
Unset == 0 - 1
None == 0

\* Values result["text"] can take: empty, whitespace only, speech with
\* surrounding whitespace.
Texts == {<<>>, <<" ">>, <<" ", "a", " ">>}

NoFile == [owner |-> 0, content |-> <<>>]

VARIABLES
    phase,            \* position of the main thread in __init__ / app.exec()
    model,            \* self.model loaded
    status_label,     \* text of self.status_label
    record_button,    \* text of self.record_button
    default_device,   \* sd.default.device[0]
    recording_thread, \* self.recording_thread
    ctrl_pressed,     \* self.ctrl_pressed: "unset", "yes", "no"
    listener,         \* keyboard listener thread: "off", "on", "dead", "stopped"
    tpc,              \* position of each calling thread inside toggle_recording
    waited,           \* the thread quit_app is blocked on in wait()
    nThreads,         \* RecordingThread objects constructed so far
    wpc,              \* position of each worker in run()
    recording,        \* RecordingThread.recording
    audio_queue,      \* RecordingThread.audio_queue
    recorded_chunks,  \* local recorded_chunks of run()
    pushed,           \* number of chunks the callback has put on the queue
    stream_dev,       \* device the worker's InputStream was opened on
    temp_file,        \* the worker's temp .wav: "none", "exists", "removed"
    result,           \* result["text"] returned by model.transcribe
    text,             \* local text of run()
    emitted,          \* signals the worker's current run() has emitted, in order
    runs,             \* times run() has been entered on the worker object
    saved,            \* names (timestamps) of the files the current run() has written
    uiQueue,          \* queued signal deliveries pending on the UI thread
    text_display,     \* transcripts appended to self.text_display
    typed,            \* transcripts typed by pyautogui.write
    files,            \* transcription_<timestamp>.txt files
    clock,            \* the second datetime.now() last returned
    callback_status,  \* an audio_callback has emitted a status update
    shortcut,         \* an activated signal of self.shortcut is queued on the UI thread
    key_toggles       \* toggle_recording calls made for the last Ctrl+6 key press

appVars == <<phase, model, status_label, record_button, default_device,
             recording_thread, ctrl_pressed, listener, tpc, waited,
             nThreads>>
workerVars == <<wpc, recording, audio_queue, recorded_chunks, pushed,
                stream_dev, temp_file, result, text, emitted, runs, saved>>
sinkVars == <<uiQueue, text_display, typed, files, clock, callback_status>>
keyVars == <<shortcut, key_toggles>>
vars == <<appVars, workerVars, sinkVars, keyVars>>

\* ----------------------------------------------------------------- helpers
\* str.strip(): drop leading and trailing whitespace.
RECURSIVE lstrip(_)
lstrip(s) == IF s # <<>> /\ Head(s) = " " THEN lstrip(Tail(s)) ELSE s

RECURSIVE rstrip(_)
rstrip(s) == IF s # <<>> /\ s[Len(s)] = " " THEN rstrip(SubSeq(s, 1, Len(s) - 1)) ELSE s

\* Variant of strip that strips nothing (the emit guard would then see the
\* raw text); C8 must fail with it.
strip_nothing(s) == s

strip(s) == rstrip(lstrip(s))

\* QThread.isRunning(): from start() until run() has returned.
isRunning(w) == wpc[w] \notin {"none", "new", "done"}

\* The InputStream of worker w is open (inside the with block).
streamOpen(w) == wpc[w] = "loop"

\* -------------------------------------------------------------------- Init
\* The state on entry to setup_model: setup_audio and setup_ui have run.
Init ==
    /\ phase = "setup_model"
    /\ model = FALSE
    /\ status_label = "Ready"
    /\ record_button = "Start Recording (Ctrl+6)"
    /\ default_device = 1
    /\ recording_thread = Unset
    /\ ctrl_pressed = "unset"
    /\ listener = "off"
    /\ tpc = [t \in Threads |-> "idle"]
    /\ waited = None
    /\ nThreads = 0
    /\ wpc = [w \in Workers |-> "none"]
    /\ recording = [w \in Workers |-> FALSE]
    /\ audio_queue = [w \in Workers |-> <<>>]
    /\ recorded_chunks = [w \in Workers |-> <<>>]
    /\ pushed = [w \in Workers |-> 0]
    /\ stream_dev = [w \in Workers |-> 0]
    /\ temp_file = [w \in Workers |-> "none"]
    /\ result = [w \in Workers |-> <<>>]
    /\ text = [w \in Workers |-> <<>>]
    /\ emitted = [w \in Workers |-> <<>>]
    /\ runs = [w \in Workers |-> 0]
    /\ saved = [w \in Workers |-> {}]
    /\ uiQueue = <<>>
    /\ text_display = <<>>
    /\ typed = <<>>
    /\ files = [ts \in Times |-> NoFile]
    /\ clock = 0
    /\ callback_status = FALSE
    /\ shortcut = FALSE
    /\ key_toggles = 0

\* ------------------------------------------------- DictationApp.__init__
\* Variant of setup_model whose handler does not re-raise; C6 must fail with
\* it.
setup_model_swallowed ==
    /\ phase = "setup_model"
    /\ \E ok \in BOOLEAN :
          IF ok
          THEN /\ model' = TRUE
               /\ status_label' = "Ready - Using CPU"
               /\ phase' = "setup_hotkey"
          ELSE /\ model' = FALSE
               /\ status_label' = "Error loading model"
               /\ phase' = "setup_hotkey"
    /\ UNCHANGED <<keyVars, record_button, default_device, recording_thread, ctrl_pressed,
                   listener, tpc, waited, nThreads, workerVars, sinkVars>>

\* setup_model: load the model; on failure set the label and re-raise, which
\* leaves __init__ and main() with the exception.
setup_model ==
    /\ phase = "setup_model"
    /\ \E ok \in BOOLEAN :
          IF ok
          THEN /\ model' = TRUE
               /\ status_label' = "Ready - Using CPU"
               /\ phase' = "setup_hotkey"
          ELSE /\ model' = FALSE
               /\ status_label' = "Error loading model"
               /\ phase' = "raised"
    /\ UNCHANGED <<keyVars, record_button, default_device, recording_thread, ctrl_pressed,
                   listener, tpc, waited, nThreads, workerVars, sinkVars>>

\* setup_hotkey, first half: keyboard_listener.start().
setup_hotkey ==
    /\ phase = "setup_hotkey"
    /\ listener' = "on"
    /\ phase' = "set_ctrl"
    /\ UNCHANGED <<keyVars, model, status_label, record_button, default_device,
                   recording_thread, ctrl_pressed, tpc, waited, nThreads,
                   workerVars, sinkVars>>

\* setup_hotkey, second half: self.ctrl_pressed = False.
init_ctrl_pressed ==
    /\ phase = "set_ctrl"
    /\ ctrl_pressed' = "no"
    /\ phase' = "set_rt"
    /\ UNCHANGED <<keyVars, model, status_label, record_button, default_device,
                   recording_thread, listener, tpc, waited, nThreads,
                   workerVars, sinkVars>>

\* self.recording_thread = None, then window.show() and app.exec().
init_recording_thread ==
    /\ phase = "set_rt"
    /\ recording_thread' = None
    /\ phase' = "exec"
    /\ UNCHANGED <<keyVars, model, status_label, record_button, default_device,
                   ctrl_pressed, listener, tpc, waited, nThreads,
                   workerVars, sinkVars>>

\* ------------------------------------------------------ toggle_recording
\* Threads already past the check and about to construct a RecordingThread.
starting == {u \in Threads : tpc[u] = "start"}

\* Variant of toggle_recording that tests the thread's recording flag instead
\* of isRunning(); C15 must fail with it.
toggle_recording_by_flag(t) ==
    /\ tpc[t] = "idle"
    /\ recording_thread # Unset
    /\ IF recording_thread = None \/ ~recording[recording_thread]
       THEN /\ nThreads + Cardinality(starting) < Cardinality(Workers)
            /\ tpc' = [tpc EXCEPT ![t] = "start"]
       ELSE tpc' = [tpc EXCEPT ![t] = "stop"]

\* The test of toggle_recording, evaluated by thread t.
toggle_recording(t) ==
    /\ tpc[t] = "idle"
    /\ recording_thread # Unset
    /\ IF recording_thread = None \/ ~isRunning(recording_thread)
       THEN /\ nThreads + Cardinality(starting) < Cardinality(Workers)
            /\ tpc' = [tpc EXCEPT ![t] = "start"]
       ELSE tpc' = [tpc EXCEPT ![t] = "stop"]

\* start_recording up to the assignment of self.recording_thread.
start_recording(t) ==
    /\ tpc[t] = "start"
    /\ record_button' = "Stop Recording"
    /\ nThreads' = nThreads + 1
    /\ recording_thread' = nThreads + 1
    /\ wpc' = [wpc EXCEPT ![nThreads + 1] = "new"]
    /\ recording' = [recording EXCEPT ![nThreads + 1] = TRUE]
    /\ tpc' = [tpc EXCEPT ![t] = "created"]
    /\ UNCHANGED <<keyVars, phase, model, status_label, default_device, ctrl_pressed,
                   listener, waited, audio_queue, recorded_chunks, pushed,
                   stream_dev, temp_file, result, text, emitted, runs, saved, sinkVars>>

\* self.recording_thread.start(): starts a new or finished thread, does
\* nothing on a running one.
thread_start(t) ==
    /\ tpc[t] = "created"
    /\ wpc' = [wpc EXCEPT ![recording_thread] =
                  IF isRunning(recording_thread) THEN @ ELSE "started"]
    /\ runs' = [runs EXCEPT ![recording_thread] =
                  IF isRunning(recording_thread) THEN @ ELSE @ + 1]
    /\ tpc' = [tpc EXCEPT ![t] = "idle"]
    /\ UNCHANGED <<keyVars, phase, model, status_label, record_button, default_device,
                   recording_thread, ctrl_pressed, listener, waited, nThreads,
                   recording, audio_queue, recorded_chunks, pushed, stream_dev,
                   temp_file, result, text, emitted, saved, sinkVars>>

\* stop_recording: with a running thread, its recording flag is set to False
\* and the button is relabelled.
stop_recording(t) ==
    /\ tpc[t] = "stop"
    /\ IF recording_thread # None /\ isRunning(recording_thread)
       THEN /\ recording' = [recording EXCEPT ![recording_thread] = FALSE]
            /\ record_button' = "Start Recording (Ctrl+6)"
       ELSE UNCHANGED <<recording, record_button>>
    /\ tpc' = [tpc EXCEPT ![t] = "idle"]
    /\ UNCHANGED <<keyVars, phase, model, status_label, default_device, recording_thread,
                   ctrl_pressed, listener, waited, nThreads, wpc,
                   audio_queue, recorded_chunks, pushed, stream_dev, temp_file,
                   result, text, emitted, runs, saved, sinkVars>>

\* The record button's clicked signal or the QShortcut's activated signal,
\* handled on the UI thread.
ui_toggle ==
    /\ phase = "exec"
    /\ toggle_recording("ui")
    /\ UNCHANGED <<keyVars, phase, model, status_label, record_button, default_device,
                   recording_thread, ctrl_pressed, listener, waited, nThreads,
                   workerVars, sinkVars>>

\* ------------------------------------------------------- hotkey listener
\* on_key_press(Key.ctrl)
on_key_press_ctrl ==
    /\ listener = "on"
    /\ tpc["hk"] = "idle"
    /\ ctrl_pressed' = "yes"
    /\ UNCHANGED <<keyVars, phase, model, status_label, record_button, default_device,
                   recording_thread, listener, tpc, waited, nThreads,
                   workerVars, sinkVars>>

\* on_key_release(Key.ctrl)
on_key_release ==
    /\ listener = "on"
    /\ tpc["hk"] = "idle"
    /\ ctrl_pressed' = "no"
    /\ UNCHANGED <<keyVars, phase, model, status_label, record_button, default_device,
                   recording_thread, listener, tpc, waited, nThreads,
                   workerVars, sinkVars>>

\* on_key_press('6'): reads self.ctrl_pressed and, when set, calls
\* toggle_recording. Reading an attribute __init__ has not assigned yet
\* raises AttributeError in the listener thread, which ends it.
on_key_press_6 ==
    /\ listener = "on"
    /\ tpc["hk"] = "idle"
    /\ ctrl_pressed # "no"
    /\ IF ctrl_pressed = "unset" \/ recording_thread = Unset
       THEN listener' = "dead" /\ tpc' = tpc
       ELSE listener' = listener /\ toggle_recording("hk")
    /\ UNCHANGED <<keyVars, phase, model, status_label, record_button, default_device,
                   recording_thread, ctrl_pressed, waited, nThreads,
                   workerVars, sinkVars>>

\* ---------------------------------------------------------- change_device
\* status_label holds the text DictationApp's own methods set on it. The
\* texts a worker sends with status_update are kept in the worker's emitted
\* list; their delivery to status_label.setText is not modelled.
change_device(d) ==
    /\ phase = "exec"
    /\ tpc["ui"] = "idle"
    /\ d # default_device
    /\ default_device' = d
    /\ status_label' = IF d = 1 THEN "Changed input device to: 1"
                       ELSE "Changed input device to: 2"
    /\ UNCHANGED <<keyVars, phase, model, record_button, recording_thread, ctrl_pressed,
                   listener, tpc, waited, nThreads, workerVars, sinkVars>>

\* ------------------------------------------------- RecordingThread.run
\* The process is alive: __init__ has not raised and the app has not quit.
alive == phase \notin {"raised", "quit"}

\* The worker's run() is modelled in the blocks between its interactions with
\* other threads; the statements in a block touch only the run's locals, its
\* own temp file and the list of signals it has emitted.

\* Variant of run_open that opens the stream on device 1 whatever the default
\* input device is; C10 must fail with it.
run_open_fixed_device(w) ==
    /\ alive
    /\ wpc[w] = "started"
    /\ recorded_chunks' = [recorded_chunks EXCEPT ![w] = <<>>]
    /\ result' = [result EXCEPT ![w] = <<>>]
    /\ text' = [text EXCEPT ![w] = <<>>]
    /\ \E ok \in BOOLEAN :
          IF ok
          THEN /\ stream_dev' = [stream_dev EXCEPT ![w] = 1]
               /\ emitted' = [emitted EXCEPT ![w] = <<"Recording...">>]
               /\ wpc' = [wpc EXCEPT ![w] = "loop"]
          ELSE /\ stream_dev' = stream_dev
               /\ emitted' = [emitted EXCEPT ![w] = <<"Error">>]
               /\ wpc' = [wpc EXCEPT ![w] = "returning"]
    /\ saved' = [saved EXCEPT ![w] = {}]
    /\ UNCHANGED <<keyVars, appVars, runs, recording, audio_queue, pushed,
                   temp_file, sinkVars>>

\* run() entered, with fresh locals (recorded_chunks = []; result and text
\* not yet bound; nothing emitted by this run). The InputStream is opened on
\* the default input device and "Recording..." is emitted, or opening raises
\* (device unavailable) and the handler emits "Error: ...".
run_open(w) ==
    /\ alive
    /\ wpc[w] = "started"
    /\ recorded_chunks' = [recorded_chunks EXCEPT ![w] = <<>>]
    /\ result' = [result EXCEPT ![w] = <<>>]
    /\ text' = [text EXCEPT ![w] = <<>>]
    /\ \E ok \in BOOLEAN :
          IF ok
          THEN /\ stream_dev' = [stream_dev EXCEPT ![w] = default_device]
               /\ emitted' = [emitted EXCEPT ![w] = <<"Recording...">>]
               /\ wpc' = [wpc EXCEPT ![w] = "loop"]
          ELSE /\ stream_dev' = stream_dev
               /\ emitted' = [emitted EXCEPT ![w] = <<"Error">>]
               /\ wpc' = [wpc EXCEPT ![w] = "returning"]
    /\ saved' = [saved EXCEPT ![w] = {}]
    /\ UNCHANGED <<keyVars, appVars, runs, recording, audio_queue, pushed,
                   temp_file, sinkVars>>

\* One pass of `while self.recording:` with the flag still true and a chunk
\* queued: recorded_chunks.append(self.audio_queue.get()). (With the queue
\* empty the pass is sd.sleep(10), which changes nothing.)
loop_body(w) ==
    /\ alive
    /\ wpc[w] = "loop"
    /\ recording[w]
    /\ audio_queue[w] # <<>>
    /\ recorded_chunks' = [recorded_chunks EXCEPT
                              ![w] = Append(@, Head(audio_queue[w]))]
    /\ audio_queue' = [audio_queue EXCEPT ![w] = Tail(@)]
    /\ UNCHANGED <<keyVars, appVars, runs, saved, wpc, recording, pushed,
                   stream_dev, temp_file, result, text, emitted, sinkVars>>

\* What the wave.open block does with the temp file named by mktemp: the
\* file is written, or wave.open raises before creating it, or a later call
\* raises with the file created.
WavOutcomes == {"written", "open_raised", "write_raised"}

\* Variant of loop_exit that leaves the loop only with the queue empty (and
\* nothing takes the chunks once the flag is false); C11 must fail with it.
loop_exit_when_drained(w) ==
    /\ alive
    /\ wpc[w] = "loop"
    /\ ~recording[w]
    /\ audio_queue[w] = <<>>
    /\ stream_dev' = [stream_dev EXCEPT ![w] = 0]
    /\ IF recorded_chunks[w] = <<>>
       THEN /\ emitted' = [emitted EXCEPT ![w] = Append(@, "Ready")]
            /\ wpc' = [wpc EXCEPT ![w] = "returning"]
            /\ temp_file' = temp_file
       ELSE \E outcome \in WavOutcomes :
               /\ temp_file' = [temp_file EXCEPT
                                   ![w] = IF outcome = "open_raised"
                                          THEN "none" ELSE "exists"]
               /\ emitted' = [emitted EXCEPT
                                 ![w] = Append(@, IF outcome = "written"
                                                  THEN "Transcribing..." ELSE "Error")]
               /\ wpc' = [wpc EXCEPT
                             ![w] = IF outcome = "written"
                                    THEN "transcribe" ELSE "returning"]
    /\ UNCHANGED <<keyVars, appVars, runs, saved, recording, audio_queue,
                   recorded_chunks, pushed, result, text, sinkVars>>

\* Variant of loop_exit that leaves the InputStream open; C14 must fail with
\* it.
loop_exit_stream_open(w) ==
    /\ alive
    /\ wpc[w] = "loop"
    /\ ~recording[w]
    /\ IF recorded_chunks[w] = <<>>
       THEN /\ emitted' = [emitted EXCEPT ![w] = Append(@, "Ready")]
            /\ wpc' = [wpc EXCEPT ![w] = "returning"]
            /\ temp_file' = temp_file
       ELSE \E outcome \in WavOutcomes :
               /\ temp_file' = [temp_file EXCEPT
                                   ![w] = IF outcome = "open_raised"
                                          THEN "none" ELSE "exists"]
               /\ emitted' = [emitted EXCEPT
                                 ![w] = Append(@, IF outcome = "written"
                                                  THEN "Transcribing..." ELSE "Error")]
               /\ wpc' = [wpc EXCEPT
                             ![w] = IF outcome = "written"
                                    THEN "transcribe" ELSE "returning"]
    /\ UNCHANGED <<keyVars, appVars, runs, saved, recording, audio_queue, stream_dev,
                   recorded_chunks, pushed, result, text, sinkVars>>

\* The loop test finds the flag false: the with block is left, which closes
\* the InputStream. With no chunk recorded, "Ready" is emitted. Otherwise the
\* chunks are concatenated and written to the temp .wav, and
\* "Transcribing..." is emitted before the model is called; an exception
\* goes to the handler, which emits "Error: ...".
loop_exit(w) ==
    /\ alive
    /\ wpc[w] = "loop"
    /\ ~recording[w]
    /\ stream_dev' = [stream_dev EXCEPT ![w] = 0]
    /\ IF recorded_chunks[w] = <<>>
       THEN /\ emitted' = [emitted EXCEPT ![w] = Append(@, "Ready")]
            /\ wpc' = [wpc EXCEPT ![w] = "returning"]
            /\ temp_file' = temp_file
       ELSE \E outcome \in WavOutcomes :
               /\ temp_file' = [temp_file EXCEPT
                                   ![w] = IF outcome = "open_raised"
                                          THEN "none" ELSE "exists"]
               /\ emitted' = [emitted EXCEPT
                                 ![w] = Append(@, IF outcome = "written"
                                                  THEN "Transcribing..." ELSE "Error")]
               /\ wpc' = [wpc EXCEPT
                             ![w] = IF outcome = "written"
                                    THEN "transcribe" ELSE "returning"]
    /\ UNCHANGED <<keyVars, appVars, runs, saved, recording, audio_queue,
                   recorded_chunks, pushed, result, text, sinkVars>>

\* Variant of transcribe_raises without the handler's emit; C5 must fail with
\* it.
transcribe_raises_unreported(w) ==
    /\ alive
    /\ wpc[w] = "transcribe"
    /\ wpc' = [wpc EXCEPT ![w] = "returning"]
    /\ UNCHANGED <<keyVars, appVars, runs, saved, recording, audio_queue,
                   recorded_chunks, pushed, stream_dev, temp_file, result, text,
                   emitted, sinkVars>>

\* self.model.transcribe(temp_file, ...) raises; the handler emits "Error: ...".
transcribe_raises(w) ==
    /\ alive
    /\ wpc[w] = "transcribe"
    /\ emitted' = [emitted EXCEPT ![w] = Append(@, "Error")]
    /\ wpc' = [wpc EXCEPT ![w] = "returning"]
    /\ UNCHANGED <<keyVars, appVars, runs, saved, recording, audio_queue,
                   recorded_chunks, pushed, stream_dev, temp_file, result, text,
                   sinkVars>>

\* self.model.transcribe(temp_file, ...) returns a text. os.remove(temp_file)
\* follows and may raise. Then text = result["text"].strip(); a non-empty
\* text is emitted with transcription_done, which queues handle_transcription
\* on the UI thread, and is then to be saved; an empty one leads to "Ready".
transcribe(w) ==
    /\ alive
    /\ wpc[w] = "transcribe"
    /\ \E r \in Texts, removed \in BOOLEAN :
          /\ result' = [result EXCEPT ![w] = r]
          /\ IF ~removed
             THEN /\ emitted' = [emitted EXCEPT ![w] = Append(@, "Error")]
                  /\ wpc' = [wpc EXCEPT ![w] = "returning"]
                  /\ UNCHANGED <<temp_file, text, uiQueue>>
             ELSE /\ temp_file' = [temp_file EXCEPT ![w] = "removed"]
                  /\ text' = [text EXCEPT ![w] = strip(r)]
                  /\ IF strip(r) # <<>>
                     THEN /\ emitted' = [emitted EXCEPT
                                            ![w] = Append(@, "transcription_done")]
                          /\ uiQueue' = Append(uiQueue, [from |-> w, arg |-> strip(r)])
                          /\ wpc' = [wpc EXCEPT ![w] = "save"]
                     ELSE /\ emitted' = [emitted EXCEPT ![w] = Append(@, "Ready")]
                          /\ uiQueue' = uiQueue
                          /\ wpc' = [wpc EXCEPT ![w] = "returning"]
    /\ UNCHANGED <<keyVars, appVars, runs, saved, recording, audio_queue,
                   recorded_chunks, pushed, stream_dev, text_display, typed,
                   files, clock, callback_status>>

\* Variant of save_transcription that emits "Ready" without writing the file;
\* C2 must fail with it.
save_transcription_unwritten(w) ==
    /\ alive
    /\ wpc[w] = "save"
    /\ \E now \in clock..MaxTime : clock' = now
    /\ emitted' = [emitted EXCEPT ![w] = Append(@, "Ready")]
    /\ wpc' = [wpc EXCEPT ![w] = "returning"]
    /\ UNCHANGED <<keyVars, appVars, runs, saved, recording, audio_queue,
                   recorded_chunks, pushed, stream_dev, temp_file, result, text,
                   uiQueue, text_display, typed, files, callback_status>>

\* Save transcription: datetime.now() is read to the second (the clock has
\* not gone back since it was last read), and the file of that name is
\* opened with "w" and written, after which "Ready" is emitted; os.makedirs
\* or open may raise, and the handler emits "Error: ...".
save_transcription(w) ==
    /\ alive
    /\ wpc[w] = "save"
    /\ \E now \in clock..MaxTime :
          /\ clock' = now
          /\ \E ok \in BOOLEAN :
                IF ok
                THEN /\ files' = [files EXCEPT
                                     ![now] = [owner |-> w, content |-> text[w]]]
                     /\ saved' = [saved EXCEPT ![w] = @ \cup {now}]
                     /\ emitted' = [emitted EXCEPT ![w] = Append(@, "Ready")]
                ELSE /\ files' = files
                     /\ saved' = saved
                     /\ emitted' = [emitted EXCEPT ![w] = Append(@, "Error")]
    /\ wpc' = [wpc EXCEPT ![w] = "returning"]
    /\ UNCHANGED <<keyVars, appVars, runs, recording, audio_queue,
                   recorded_chunks, pushed, stream_dev, temp_file, result, text,
                   uiQueue, text_display, typed, callback_status>>

\* run() returns: its locals are gone, the thread finishes and isRunning()
\* turns false. The object keeps its recording flag and its audio_queue; of
\* the temp file only whether it still exists remains.
run_return(w) ==
    /\ alive
    /\ wpc[w] = "returning"
    /\ wpc' = [wpc EXCEPT ![w] = "done"]
    /\ recorded_chunks' = [recorded_chunks EXCEPT ![w] = <<>>]
    /\ result' = [result EXCEPT ![w] = <<>>]
    /\ text' = [text EXCEPT ![w] = <<>>]
    /\ emitted' = [emitted EXCEPT ![w] = <<>>]
    /\ temp_file' = [temp_file EXCEPT ![w] = IF @ = "exists" THEN "exists" ELSE "none"]
    /\ saved' = [saved EXCEPT ![w] = {}]
    /\ UNCHANGED <<keyVars, appVars, runs, recording, audio_queue, pushed,
                   stream_dev, sinkVars>>

\* Variant of audio_callback that counts the block but does not put it on the
\* queue; C13 must fail with it.
audio_callback_lossy(w) ==
    /\ alive
    /\ streamOpen(w)
    /\ pushed[w] < MaxChunks
    /\ pushed' = [pushed EXCEPT ![w] = @ + 1]
    /\ \E status \in BOOLEAN : callback_status' = (callback_status \/ status)
    /\ UNCHANGED <<keyVars, appVars, runs, saved, wpc, recording, recorded_chunks, stream_dev,
                   temp_file, result, text, emitted, files, clock, uiQueue,
                   text_display, typed, audio_queue>>

\* audio_callback, on the audio library's thread while the stream is open:
\* a truthy status is emitted with status_update, and the block is put on the
\* queue.
audio_callback(w) ==
    /\ alive
    /\ streamOpen(w)
    /\ pushed[w] < MaxChunks
    /\ pushed' = [pushed EXCEPT ![w] = @ + 1]
    /\ audio_queue' = [audio_queue EXCEPT ![w] = Append(@, <<pushed[w] + 1>>)]
    /\ \E status \in BOOLEAN : callback_status' = (callback_status \/ status)
    /\ UNCHANGED <<keyVars, appVars, runs, saved, wpc, recording, recorded_chunks, stream_dev,
                   temp_file, result, text, emitted, files, clock, uiQueue,
                   text_display, typed>>

\* ------------------------------------------------------------- UI thread
\* The UI thread delivers the oldest queued transcription_done to
\* handle_transcription, which appends the text to the display and types it
\* followed by a space.
handle_transcription ==
    /\ phase = "exec"
    /\ tpc["ui"] = "idle"
    /\ uiQueue # <<>>
    /\ uiQueue' = Tail(uiQueue)
    /\ LET e == Head(uiQueue) IN
          /\ text_display' = Append(text_display, [from |-> e.from, text |-> e.arg])
          /\ typed' = Append(typed, [from |-> e.from, text |-> e.arg \o <<" ">>])
    /\ UNCHANGED <<keyVars, appVars, workerVars, files, clock, callback_status>>

\* --------------------------------------------------------------- quit_app
\* quit_app, on the UI thread (tray menu, or signal_handler): with a running
\* thread it calls stop_recording, which sets the flag and relabels the
\* button, and then waits for that thread; without one it goes on to quit.
quit_app ==
    /\ phase = "exec"
    /\ tpc["ui"] = "idle"
    /\ IF recording_thread # None /\ isRunning(recording_thread)
       THEN /\ recording' = [recording EXCEPT ![recording_thread] = FALSE]
            /\ record_button' = "Start Recording (Ctrl+6)"
            /\ waited' = recording_thread
            /\ tpc' = [tpc EXCEPT !["ui"] = "waiting"]
       ELSE /\ tpc' = [tpc EXCEPT !["ui"] = "quit"]
            /\ UNCHANGED <<recording, record_button, waited>>
    /\ UNCHANGED <<keyVars, phase, model, status_label, default_device, recording_thread,
                   ctrl_pressed, listener, nThreads, wpc, audio_queue,
                   recorded_chunks, pushed, stream_dev, temp_file, result, text,
                   emitted, runs, saved, sinkVars>>

\* wait() has returned, the waited thread not running any more (or there was
\* none to wait for): keyboard_listener.stop() and QApplication.quit(). The
\* event loop ends and the process exits; signals still queued are never
\* delivered.
quit_finish ==
    /\ \/ tpc["ui"] = "waiting" /\ ~isRunning(waited)
       \/ tpc["ui"] = "quit"
    /\ listener' = IF listener = "on" THEN "stopped" ELSE listener
    /\ phase' = "quit"
    /\ UNCHANGED <<keyVars, model, status_label, record_button, default_device,
                   recording_thread, ctrl_pressed, tpc, waited, nThreads,
                   workerVars, sinkVars>>

\* -------------------------------------------------------------------- Next
Next ==
    \/ setup_model
    \/ setup_hotkey
    \/ init_ctrl_pressed
    \/ init_recording_thread
    \/ ui_toggle
    \/ on_key_press_ctrl
    \/ on_key_release
    \/ on_key_press_6
    \/ \E t \in Threads : start_recording(t)
    \/ \E t \in Threads : thread_start(t)
    \/ \E t \in Threads : stop_recording(t)
    \/ \E d \in Devices : change_device(d)
    \/ handle_transcription
    \/ quit_app
    \/ quit_finish
    \/ \E w \in Workers : run_open(w)
    \/ \E w \in Workers : loop_body(w)
    \/ \E w \in Workers : loop_exit(w)
    \/ \E w \in Workers : transcribe_raises(w)
    \/ \E w \in Workers : transcribe(w)
    \/ \E w \in Workers : save_transcription(w)
    \/ \E w \in Workers : run_return(w)
    \/ \E w \in Workers : audio_callback(w)

Spec == Init /\ [][Next]_vars

\* --------------------------------------------------------- Ctrl+6 pressed
\* Spec leaves open what makes the UI thread toggle (ui_toggle: the button or
\* the shortcut). KeySpec adds the key press as the common cause of the two
\* deliveries of one press.

\* The 6 key goes down with Ctrl held. The window system delivers the press to
\* the pynput listener wherever the keyboard focus is, where on_key_press
\* calls toggle_recording; with the window focused it also goes to Qt, where
\* it matches self.shortcut and queues its activated signal.
key_press_ctrl_6 ==
    /\ phase = "exec"
    /\ ~shortcut
    /\ tpc["hk"] = "idle"
    /\ listener = "on" => ctrl_pressed = "yes"
    /\ \E focused \in BOOLEAN : shortcut' = focused
    /\ IF listener = "on"
       THEN toggle_recording("hk") /\ key_toggles' = 1
       ELSE tpc' = tpc /\ key_toggles' = 0
    /\ UNCHANGED <<phase, model, status_label, record_button, default_device,
                   recording_thread, ctrl_pressed, listener, waited, nThreads,
                   workerVars, sinkVars>>

\* The UI thread handles the shortcut's activated signal: toggle_recording.
shortcut_activated ==
    /\ phase = "exec"
    /\ shortcut
    /\ shortcut' = FALSE
    /\ key_toggles' = key_toggles + 1
    /\ toggle_recording("ui")
    /\ UNCHANGED <<phase, model, status_label, record_button, default_device,
                   recording_thread, ctrl_pressed, listener, waited, nThreads,
                   workerVars, sinkVars>>

KeyNext ==
    \/ Next
    \/ key_press_ctrl_6
    \/ shortcut_activated

KeySpec == Init /\ [][KeyNext]_vars

\* ------------------------------------------------------------- properties
Last(s) == s[Len(s)]
Count(s, x) == Cardinality({i \in 1..Len(s) : s[i] = x})
Has(s, x) == \E i \in 1..Len(s) : s[i] = x
\* The text has a character that is not whitespace.
HasSpeech(r) == \E i \in 1..Len(r) : r[i] # " "
\* The run of worker w has reached its end (run() is about to return).
Finished(w) == wpc[w] = "returning"

\* C1: in every reachable state at most one RecordingThread is running
\* (recording or transcribing), whatever the interleaving of the toggles of
\* the UI thread and of the hotkey listener thread.
C1_AtMostOneSessionActive ==
    Cardinality({w \in Workers : isRunning(w)}) <= 1

C3_LoopExitsDrained ==
    \A w \in Workers :
        wpc[w] \in {"transcribe", "save", "returning"} => audio_queue[w] = <<>>

\* C4: no step replaces a transcript file that exists; every session that
\* saves a transcript gets a file of its own.
C4_NoFileOverwritten ==
    [][\A ts \in Times : files[ts] # NoFile => files'[ts] = files[ts]]_vars

\* C5: a run that has reached its end has emitted a status, the last one is
\* "Ready" or "Error", and neither of the two was emitted before the last.
C5_LastStatusReadyOrError ==
    \A w \in Workers : Finished(w) =>
        /\ emitted[w] # <<>>
        /\ Last(emitted[w]) \in {"Ready", "Error"}
        /\ \A i \in 1..(Len(emitted[w]) - 1) :
              emitted[w][i] \notin {"Ready", "Error"}

\* A run ended by an exception after "Transcribing..." was emitted.
C5_Witness ==
    \E w \in Workers :
        /\ Finished(w)
        /\ Has(emitted[w], "Transcribing...")
        /\ Last(emitted[w]) = "Error"

\* C6 as stated: with the model load failed and the error status shown, no
\* exception has propagated out of setup_model.
C6_LoadFailureNotEscalated ==
    status_label = "Error loading model" => phase # "raised"

\* C6, amended: a failed model load shows the error status and is re-raised
\* out of setup_model and __init__, before the hotkey listener is started and
\* before any recording can be; an exception in a worker's run is reported
\* as its last status and leaves the application running.
C6_LoadFailureShownAndRaised ==
    /\ status_label = "Error loading model" <=> phase = "raised"
    /\ phase = "raised" =>
          /\ ~model
          /\ listener = "off"
          /\ recording_thread = Unset
          /\ nThreads = 0
    /\ \A w \in Workers :
          Has(emitted[w], "Error") => Finished(w) /\ phase \in {"exec", "quit"}

\* The model load has failed: status shown, exception out of __init__.
C6_Witness ==
    /\ phase = "raised"
    /\ status_label = "Error loading model"

\* C7: once a run has finished, the temp .wav it created no longer exists.
C7_TempFileDeleted ==
    \A w \in Workers : wpc[w] \in {"returning", "done"} => temp_file[w] # "exists"

\* C8 as stated: transcription_done is emitted at most once per run and only
\* with the input stream closed; a finished run has emitted it exactly when
\* the model's text has a non-whitespace character; a run with no captured
\* chunk has not called the model and has emitted no transcript.
C8_EmittedIffSpeech ==
    \A w \in Workers :
        /\ Count(emitted[w], "transcription_done") <= 1
        /\ Has(emitted[w], "transcription_done") => stream_dev[w] = 0
        /\ Finished(w) =>
              (Has(emitted[w], "transcription_done") <=> HasSpeech(result[w]))
        /\ (Finished(w) /\ recorded_chunks[w] = <<>>) =>
              /\ ~Has(emitted[w], "Transcribing...")
              /\ ~Has(emitted[w], "transcription_done")

\* C8, amended: as C8, but a finished run has emitted transcription_done
\* exactly when the model's text has a non-whitespace character and removing
\* the temp file did not raise; the text emitted is then the model's text
\* without its leading and trailing whitespace.
C8_EmittedIffSpeechAndRemoved ==
    \A w \in Workers :
        /\ Count(emitted[w], "transcription_done") <= 1
        /\ Has(emitted[w], "transcription_done") => stream_dev[w] = 0
        /\ Finished(w) =>
              (Has(emitted[w], "transcription_done")
                  <=> (HasSpeech(result[w]) /\ temp_file[w] = "removed"))
        /\ Has(emitted[w], "transcription_done") =>
              /\ text[w] # <<>>
              /\ Head(text[w]) # " "
              /\ Last(text[w]) # " "
        /\ (Finished(w) /\ recorded_chunks[w] = <<>>) =>
              /\ ~Has(emitted[w], "Transcribing...")
              /\ ~Has(emitted[w], "transcription_done")

\* A finished run whose model text " a " was emitted as "a".
C8_Witness ==
    \E w \in Workers :
        /\ Finished(w)
        /\ result[w] = <<" ", "a", " ">>
        /\ text[w] = <<"a">>
        /\ Count(emitted[w], "transcription_done") = 1

\* The transcript of worker w is in the display log / has been typed / is in
\* a transcript file.
displayed(w) == \E i \in 1..Len(text_display) : text_display[i].from = w
keyed(w) == \E i \in 1..Len(typed) : typed[i].from = w
persisted(w) == \E ts \in Times : files[ts].owner = w

\* C9: for a finished session with no delivery to the UI thread pending (or
\* the application gone), the transcript is in all three sinks or in none.
C9_AllSinksAgree ==
    \A w \in Workers :
        (/\ Finished(w)
         /\ \/ \A i \in 1..Len(uiQueue) : uiQueue[i].from # w
            \/ phase = "quit")
        => /\ displayed(w) <=> persisted(w)
           /\ displayed(w) <=> keyed(w)

\* C10 as stated: an open input stream captures from the device selected
\* last.
C10_CapturesFromSelectedDevice ==
    \A w \in Workers : streamOpen(w) => stream_dev[w] = default_device

\* C10, amended: a stream is opened on the device that is the default at that
\* moment and stays on it until it is closed; change_device completes, with
\* the default device and the status label set, and touches no stream.
C10_CapturesFromDeviceAtOpen ==
    [][/\ \A w \in Workers :
             /\ (stream_dev[w] = 0 /\ stream_dev'[w] # 0)
                   => stream_dev'[w] = default_device
             /\ (stream_dev[w] # 0 /\ stream_dev'[w] # 0)
                   => stream_dev'[w] = stream_dev[w]
       /\ default_device' # default_device =>
             /\ stream_dev' = stream_dev
             /\ phase' = "exec"
             /\ status_label' \in {"Changed input device to: 1",
                                   "Changed input device to: 2"}]_vars

\* A device switch made while a session is recording: the open stream is
\* still on the device it was opened on.
C10_Witness ==
    \E w \in Workers :
        /\ streamOpen(w)
        /\ recording[w]
        /\ stream_dev[w] # default_device
        /\ status_label \in {"Changed input device to: 1",
                             "Changed input device to: 2"}

\* ---------------------------------------------------------------- liveness
\* One step of worker w's thread in run().
run(w) ==
    \/ run_open(w)
    \/ loop_body(w)
    \/ loop_exit(w)
    \/ transcribe(w)
    \/ transcribe_raises(w)
    \/ save_transcription(w)
    \/ run_return(w)

\* Fair scheduling of the workers: a worker thread that can take its next
\* step in run() eventually takes it (the model call eventually returns or
\* raises).
Fairness == \A w \in Workers : WF_vars(run(w))

\* The application for as long as it runs: Next without quit_app, and without
\* change_device, which no step of the stopping of a worker reads.
LiveNext ==
    \/ setup_model
    \/ setup_hotkey
    \/ init_ctrl_pressed
    \/ init_recording_thread
    \/ ui_toggle
    \/ on_key_press_ctrl
    \/ on_key_release
    \/ on_key_press_6
    \/ \E t \in Threads : start_recording(t)
    \/ \E t \in Threads : thread_start(t)
    \/ \E t \in Threads : stop_recording(t)
    \/ handle_transcription
    \/ \E w \in Workers : run_open(w)
    \/ \E w \in Workers : loop_body(w)
    \/ \E w \in Workers : loop_exit(w)
    \/ \E w \in Workers : transcribe_raises(w)
    \/ \E w \in Workers : transcribe(w)
    \/ \E w \in Workers : save_transcription(w)
    \/ \E w \in Workers : run_return(w)
    \/ \E w \in Workers : audio_callback(w)

LiveSpec == Init /\ [][LiveNext]_vars /\ Fairness

\* C11: a running worker whose recording flag is false eventually finishes
\* (its capture loop left and its input stream closed before that); and a
\* toggle takes the stop branch only with self.recording_thread running, so
\* that after the worker has finished the next toggle starts a new session.
C11_StopLeadsToFinish ==
    /\ \A w \in Workers : (isRunning(w) /\ ~recording[w]) ~> (wpc[w] = "done")
    /\ [][\A t \in Threads :
             (tpc[t] = "idle" /\ tpc'[t] = "stop")
                => (recording_thread # None /\ isRunning(recording_thread))]_vars

\* A worker whose flag stop_recording had set to false has been through its
\* capture loop and has finished, and a second session was started after it.
C11_Witness ==
    /\ wpc[1] = "done"
    /\ ~recording[1]
    /\ pushed[1] > 0
    /\ recording_thread = 2
    /\ isRunning(2)

\* The chunks the audio callback has put on worker w's queue so far, in order.
pushedSoFar(w) == [i \in 1..pushed[w] |-> <<i>>]
\* Worker w is inside run(), past the opening of the stream.
inSession(w) == wpc[w] \in {"loop", "transcribe", "save", "returning"}

callbackFrame(w) ==
    /\ UNCHANGED <<appVars, wpc, recording, recorded_chunks, stream_dev,
                   temp_file, result, text, emitted, runs, saved, uiQueue,
                   text_display, typed, files, clock, keyVars>>
    /\ \A v \in Workers \ {w} :
          audio_queue'[v] = audio_queue[v] /\ pushed'[v] = pushed[v]

\* C13 as stated: a step of audio_callback appends exactly one chunk to the
\* worker's audio_queue, changes nothing else and emits nothing, whatever its
\* status argument.
C13_CallbackOnlyPushes ==
    [][\A w \in Workers : pushed'[w] # pushed[w] =>
          /\ pushed'[w] = pushed[w] + 1
          /\ audio_queue'[w] = Append(audio_queue[w], <<pushed'[w]>>)
          /\ callbackFrame(w)
          /\ callback_status' = callback_status]_vars

\* C13, amended: a step of audio_callback appends exactly one chunk to the
\* worker's audio_queue and changes nothing else, except that it may emit
\* status_update (with a truthy status argument); no other step emits that
\* status.
C13_CallbackPushesAndMayEmit ==
    [][/\ \A w \in Workers : pushed'[w] # pushed[w] =>
             /\ pushed'[w] = pushed[w] + 1
             /\ audio_queue'[w] = Append(audio_queue[w], <<pushed'[w]>>)
             /\ callbackFrame(w)
       /\ callback_status' # callback_status =>
             /\ callback_status'
             /\ \E w \in Workers : pushed'[w] # pushed[w]]_vars

\* A callback with a truthy status has pushed its chunk and emitted.
C13_Witness ==
    /\ callback_status
    /\ \E w \in Workers :
          /\ streamOpen(w)
          /\ pushed[w] = 1
          /\ audio_queue[w] = <<<<1>>>>

\* Place of a signal of run() in the pipeline.
rank(x) ==
    CASE x = "Recording..." -> 1
      [] x = "Transcribing..." -> 2
      [] x = "transcription_done" -> 3
      [] OTHER -> 4

\* C14: within a run the signals are emitted in pipeline order, none twice
\* and none going back; "Recording..." only with the stream opened,
\* "Transcribing..." only with the stream closed again and a chunk captured;
\* the model is called with the temp file written; transcription_done only
\* after "Transcribing...".
C14_PipelineOrder ==
    \A w \in Workers :
        /\ \A i, j \in 1..Len(emitted[w]) :
              i < j => rank(emitted[w][i]) < rank(emitted[w][j])
        /\ (Has(emitted[w], "Recording...") /\ wpc[w] = "loop") => stream_dev[w] # 0
        /\ Has(emitted[w], "Transcribing...") =>
              /\ emitted[w][1] = "Recording..."
              /\ stream_dev[w] = 0
              /\ recorded_chunks[w] # <<>>
        /\ wpc[w] = "transcribe" =>
              /\ temp_file[w] = "exists"
              /\ Last(emitted[w]) = "Transcribing..."
        /\ Has(emitted[w], "transcription_done") =>
              /\ Has(emitted[w], "Transcribing...")
              /\ temp_file[w] = "removed"

\* A run that went through the whole pipeline.
C14_Witness ==
    \E w \in Workers :
        /\ Finished(w)
        /\ emitted[w] = <<"Recording...", "Transcribing...",
                          "transcription_done", "Ready">>

\* self.recording_thread is running with its recording flag already false.
stopping ==
    /\ recording_thread \in Workers
    /\ isRunning(recording_thread)
    /\ ~recording[recording_thread]

\* C15: a toggle that finds self.recording_thread running with its flag
\* already false takes the stop branch, and neither its test nor its
\* stop_recording changes any worker's state (position, flag, queue, recorded
\* chunks, results), constructs a thread or touches the queued transcripts.
C15_ToggleWhileTranscribing ==
    [][\A t \in Threads :
          (/\ stopping
           /\ tpc'[t] # tpc[t]
           /\ tpc[t] \in {"idle", "stop"}
           /\ tpc'[t] \in {"idle", "start", "stop"}) =>
              /\ tpc'[t] = IF tpc[t] = "idle" THEN "stop" ELSE "idle"
              /\ UNCHANGED <<workerVars, nThreads, recording_thread, uiQueue,
                             files, text_display, typed>>]_vars

\* With the hotkey listener dead, a UI toggle is in stop_recording while the
\* worker, stopped by an earlier toggle, is transcribing.
C15_Witness ==
    /\ listener = "dead"
    /\ tpc["ui"] = "stop"
    /\ stopping
    /\ wpc[recording_thread] = "transcribe"

\* C16: with no thread inside toggle_recording, the button reads
\* "Stop Recording" only while a worker is running with its recording flag
\* true, and it reads "Start Recording (Ctrl+6)" whenever no worker is running.
C16_ButtonAgreesWithSession ==
    (\A t \in Threads : tpc[t] = "idle") =>
        /\ record_button = "Stop Recording" =>
              \E w \in Workers : isRunning(w) /\ recording[w]
        /\ (\A w \in Workers : ~isRunning(w)) =>
              record_button = "Start Recording (Ctrl+6)"

\* C17: one Ctrl+6 key press causes at most one toggle_recording call: the
\* QShortcut and the pynput listener never both toggle for the same press.
C17_OneTogglePerKeyPress == key_toggles <= 1

\* C18: every running RecordingThread is the one self.recording_thread refers
\* to, so that a toggle or quit_app can set its recording flag to false.
C18_RunningWorkerReferenced ==
    \A w \in Workers : isRunning(w) => recording_thread = w

\* C19: once quit_app has returned (the recording stopped and waited for,
\* the listener stopped, the application quit), no worker thread is running.
C19_NoWorkerRunningAfterQuit ==
    phase = "quit" => \A w \in Workers : ~isRunning(w)

=============================================================================
